---- MODULE Spec2Model ----
(***************************************************************************)
(* filebin: the name allocator of server/request_name.py (several          *)
(* request_name.py processes sharing one SQLite file) and the SSH          *)
(* authentication negotiation of client/main.py (SFTP.__init__ and         *)
(* SFTP.open_key).                                                         *)
(***************************************************************************)
EXTENDS Integers, Sequences, FiniteSets, TLC

\* ------------------------------------------------------------------------
\* Bounds
\* ------------------------------------------------------------------------
\* number of request_name.py processes sharing project.sqlite3
NumProcs == 2
\* size of the name space gen_random() draws from (36^6 in the program);
\* three, so that a redraw can hit a taken name while another one is free
NumNames == 3
\* most wrong passphrases typed at the getpass prompt of open_key
MaxWrong == 2

Procs == 1..NumProcs
Names == 1..NumNames
NoName == 0
NoInstant == [year |-> 0, month |-> 0, day |-> 0, sec |-> 0]

Min(a, b) == IF a < b THEN a ELSE b

\* ------------------------------------------------------------------------
\* Calendar arithmetic (datetime, relativedelta), request_name.py:41-42
\* ------------------------------------------------------------------------
IsLeap(y) == (y % 4 = 0) /\ ((y % 100 # 0) \/ (y % 400 = 0))

DaysInMonth(y, m) ==
    IF m = 2 THEN (IF IsLeap(y) THEN 29 ELSE 28)
    ELSE IF m \in {4, 6, 9, 11} THEN 30 ELSE 31

DaysBeforeYear(y) ==
    (y - 1) * 365 + ((y - 1) \div 4) - ((y - 1) \div 100) + ((y - 1) \div 400)

RECURSIVE DaysBeforeMonth(_, _)
DaysBeforeMonth(y, m) ==
    IF m = 1 THEN 0 ELSE DaysBeforeMonth(y, m - 1) + DaysInMonth(y, m - 1)

\* proleptic Gregorian ordinal of a date, 0001-01-01 is day 1
Ymd2Ord(y, m, d) == DaysBeforeYear(y) + DaysBeforeMonth(y, m) + d

\* datetime(y, m, d, tzinfo=utc).timestamp() plus s seconds into the day
Timestamp(y, m, d, s) == (Ymd2Ord(y, m, d) - Ymd2Ord(1970, 1, 1)) * 86400 + s

\* the instants datetime.now(timezone.utc) is drawn from
Years == {2023, 2024}
DaySeconds == {0, 43200, 86399}
Instants ==
    {[year |-> y, month |-> m, day |-> d, sec |-> s] :
        y \in Years, m \in 1..12, d \in 1..31, s \in DaySeconds}
ValidInstants == {t \in Instants : t.day <= DaysInMonth(t.year, t.month)}

\* the mutant: the month is not added
AddNoMonth(t) == t

\* t + relativedelta(months=1): next month, day clamped to that month's length
AddMonth(t) ==
    LET ny == IF t.month = 12 THEN t.year + 1 ELSE t.year
        nm == IF t.month = 12 THEN 1 ELSE t.month + 1
    IN  [year |-> ny, month |-> nm,
         day |-> Min(t.day, DaysInMonth(ny, nm)), sec |-> t.sec]

\* the mutant: the day of tmp replaced by the first of the month
ExpireFirstOfMonth(t) ==
    LET tmp == AddMonth(t) IN Timestamp(tmp.year, tmp.month, 1, 0)

\* expire = int(datetime(tmp.year, tmp.month, tmp.day, tzinfo=utc).timestamp())
ExpireOf(t) ==
    LET tmp == AddMonth(t) IN Timestamp(tmp.year, tmp.month, tmp.day, 0)

\* the instants the allocator processes of Spec read from the clock
ClockSamples ==
    {[year |-> 2024, month |-> 1, day |-> 31, sec |-> 43200],
     [year |-> 2023, month |-> 12, day |-> 15, sec |-> 0]}

\* expire_time of the rows already in the table when the processes start
PriorExpire == Timestamp(2023, 12, 1, 0)

\* ------------------------------------------------------------------------
\* State
\* ------------------------------------------------------------------------
VARIABLES
    \* server: the shared SQLite file
    tableExists,   \* assets table created (initdb)
    assets,        \* committed rows, in rowid order: [obfuscated_name, expire_time]
    writer,        \* the processes holding the write lock of the file: none or one
    \* server: one request_name.py process each
    spc,           \* position of the process
    connOpen,      \* self.conn of the SQLite scope is open
    txn,           \* rows inserted by the process and not yet committed
    candidate,     \* local candidate of get_random_unused_obfuscated_name
    data,          \* the (candidate, expire) returned, <<>> before
    stdout,        \* tokens printed by the process
    serr,          \* exception the process died with, "" if none
    preAssets,     \* names committed when the call of the process started
    clock,         \* the instants datetime.now(timezone.utc) may return
    now,           \* the instant the process read at line 41, NoInstant before
    \* client: the arguments of SFTP(hostname, port, username, password, keyfile)
    hostname,
    port,
    username,
    password,      \* TRUE when a non-empty password was given
    keyfile,       \* "none", or what the identity file holds
    \* client: how the remote answers a connect with the password / the key
    pwReply,
    keyReply,
    \* client: SFTP.__init__ and open_key
    cpc,           \* position of the client
    connected,     \* local connected of __init__
    authenticated, \* self.ssh.get_transport().authenticated
    tried,         \* the methods handed to self.ssh.connect, in order
    opened,        \* local opened of open_key
    key,           \* local key of open_key: "none" or "usable"
    answers,       \* the passphrases typed at the getpass prompt, in order
    sftpOpen,      \* self.sftp is open
    cerr,          \* exception the client raised, type "" if none
    uploaded       \* the name the file was uploaded under, NoName before

serverVars == <<tableExists, assets, writer, spc, connOpen, txn, candidate,
                data, stdout, serr, preAssets, clock, now>>
clientVars == <<hostname, port, username, password, keyfile, pwReply, keyReply,
                cpc, connected, authenticated, tried, opened, key, answers,
                sftpOpen, cerr, uploaded>>
vars == <<serverVars, clientVars>>

\* ------------------------------------------------------------------------
\* server/request_name.py
\* ------------------------------------------------------------------------
Row(n, e) == [obfuscated_name |-> n, expire_time |-> e]

RowNames(rows) == {rows[i].obfuscated_name : i \in 1..Len(rows)}

\* a table holding the names of S, in ascending order
RECURSIVE TableOf(_)
TableOf(S) ==
    IF S = {} THEN <<>>
    ELSE LET n == CHOOSE x \in S : \A y \in S : y <= x
         IN  Append(TableOf(S \ {n}), Row(n, PriorExpire))

\* the mutant: a connection does not read its own uncommitted rows
VisibleCommitted(p) == assets

\* what the connection of p reads: committed rows and its own open transaction
Visible(p) == assets \o txn[p]

\* the mutant: the existence check never finds a name
CheckNameBlind(p, name) == FALSE

\* SELECT EXISTS(SELECT 1 FROM assets WHERE obfuscated_name="{name}")
check_name(p, name) == \E i \in 1..Len(Visible(p)) : Visible(p)[i].obfuscated_name = name

\* the mutant: a table without the UNIQUE constraint on obfuscated_name
NoUniqueConstraint(rows, name) == FALSE

\* obfuscated_name TEXT UNIQUE NOT NULL: the insert of name into rows is refused
UniqueViolation(rows, name) == \E i \in 1..Len(rows) : rows[i].obfuscated_name = name

\* the processes of Running are about to start, the table holds one of Stores
ServerInit(Running, Stores) ==
    /\ \E S \in Stores :
          /\ assets = TableOf(S)
          /\ tableExists \in (IF S = {} THEN BOOLEAN ELSE {TRUE})
    /\ writer = {}
    /\ spc = [p \in Procs |-> IF p \in Running THEN "initdb" ELSE "idle"]
    /\ connOpen = [p \in Procs |-> FALSE]
    /\ txn = [p \in Procs |-> <<>>]
    /\ candidate = [p \in Procs |-> NoName]
    /\ data = [p \in Procs |-> <<>>]
    /\ stdout = [p \in Procs |-> <<>>]
    /\ serr = [p \in Procs |-> ""]
    /\ preAssets = [p \in Procs |-> {}]
    /\ now = [p \in Procs |-> NoInstant]

\* initdb(): CREATE TABLE IF NOT EXISTS in a scope of its own
initdb(p) ==
    /\ spc[p] = "initdb"
    /\ tableExists' = TRUE
    /\ spc' = [spc EXCEPT ![p] = "enter"]
    /\ UNCHANGED <<assets, writer, connOpen, txn, candidate, data, stdout,
                   serr, preAssets, clock, now,
                   clientVars>>

\* with SQLite(...) as sql: __enter__ opens the connection;
\* get_random_unused_obfuscated_name starts with candidate = gen_random()
Enter(p) ==
    /\ spc[p] = "enter"
    /\ connOpen' = [connOpen EXCEPT ![p] = TRUE]
    /\ preAssets' = [preAssets EXCEPT ![p] = RowNames(assets)]
    /\ \E c \in Names : candidate' = [candidate EXCEPT ![p] = c]
    /\ spc' = [spc EXCEPT ![p] = "check"]
    /\ UNCHANGED <<tableExists, assets, writer, txn, data, stdout, serr,
                   clock, now,
                   clientVars>>

\* while self.check_name(candidate): candidate = gen_random()
CheckName(p) ==
    /\ spc[p] = "check"
    /\ IF check_name(p, candidate[p])
       THEN /\ \E c \in Names : candidate' = [candidate EXCEPT ![p] = c]
            /\ spc' = spc
       ELSE /\ candidate' = candidate
            /\ spc' = [spc EXCEPT ![p] = "insert"]
    /\ UNCHANGED <<tableExists, assets, writer, connOpen, txn, data, stdout,
                   serr, preAssets, clock, now,
                   clientVars>>

\* lines 41-48: expire computed, INSERT executed inside an implicit
\* transaction that takes the write lock, (candidate, expire) returned
Insert(p) ==
    /\ spc[p] = "insert"
    /\ writer = {}
    /\ ~UniqueViolation(Visible(p), candidate[p])
    /\ \E t \in clock :
          /\ now' = [now EXCEPT ![p] = t]
          /\ txn' = [txn EXCEPT ![p] = Append(@, Row(candidate[p], ExpireOf(t)))]
          /\ data' = [data EXCEPT ![p] = <<candidate[p], ExpireOf(t)>>]
    /\ writer' = {p}
    /\ spc' = [spc EXCEPT ![p] = "print"]
    /\ UNCHANGED <<tableExists, assets, connOpen, candidate, stdout, serr,
                   preAssets, clock, clientVars>>

\* the mutant: the IntegrityError leaves the scope without __exit__ closing
InsertDuplicateLeak(p) ==
    /\ spc[p] = "insert"
    /\ writer = {}
    /\ UniqueViolation(Visible(p), candidate[p])
    /\ serr' = [serr EXCEPT ![p] = "IntegrityError"]
    /\ spc' = [spc EXCEPT ![p] = "failed"]
    /\ UNCHANGED <<tableExists, assets, writer, connOpen, txn, candidate, data,
                   stdout, preAssets, clock, now, clientVars>>

\* the INSERT violates the UNIQUE constraint: sqlite3.IntegrityError is not
\* caught, __exit__ commits nothing and closes, the process dies
InsertDuplicate(p) ==
    /\ spc[p] = "insert"
    /\ writer = {}
    /\ UniqueViolation(Visible(p), candidate[p])
    /\ serr' = [serr EXCEPT ![p] = "IntegrityError"]
    /\ connOpen' = [connOpen EXCEPT ![p] = FALSE]
    /\ spc' = [spc EXCEPT ![p] = "failed"]
    /\ UNCHANGED <<tableExists, assets, writer, txn, candidate, data, stdout,
                   preAssets, clock, now,
                   clientVars>>

\* another connection holds the write lock for longer than the busy timeout:
\* sqlite3.OperationalError (database is locked), not caught either
InsertLocked(p) ==
    /\ spc[p] = "insert"
    /\ writer # {}
    /\ p \notin writer
    /\ serr' = [serr EXCEPT ![p] = "OperationalError"]
    /\ connOpen' = [connOpen EXCEPT ![p] = FALSE]
    /\ spc' = [spc EXCEPT ![p] = "failed"]
    /\ UNCHANGED <<tableExists, assets, writer, txn, candidate, data, stdout,
                   preAssets, clock, now,
                   clientVars>>

\* print(data[0]); print(data[1])
PrintData(p) ==
    /\ spc[p] = "print"
    /\ stdout' = [stdout EXCEPT ![p] = @ \o data[p]]
    /\ spc' = [spc EXCEPT ![p] = "exit"]
    /\ UNCHANGED <<tableExists, assets, writer, connOpen, txn, candidate, data,
                   serr, preAssets, clock, now,
                   clientVars>>

\* the mutant: the connection is closed without the commit
ExitWithoutCommit(p) ==
    /\ spc[p] = "exit"
    /\ txn' = [txn EXCEPT ![p] = <<>>]
    /\ writer' = writer \ {p}
    /\ connOpen' = [connOpen EXCEPT ![p] = FALSE]
    /\ spc' = [spc EXCEPT ![p] = "done"]
    /\ UNCHANGED <<tableExists, assets, candidate, data, stdout, serr,
                   preAssets, clock, now, clientVars>>

\* __exit__: self.conn.commit(); self.conn.close()
Exit(p) ==
    /\ spc[p] = "exit"
    /\ assets' = assets \o txn[p]
    /\ txn' = [txn EXCEPT ![p] = <<>>]
    /\ writer' = writer \ {p}
    /\ connOpen' = [connOpen EXCEPT ![p] = FALSE]
    /\ spc' = [spc EXCEPT ![p] = "done"]
    /\ UNCHANGED <<tableExists, candidate, data, stdout, serr, preAssets,
                   clock, now,
                   clientVars>>

\* ------------------------------------------------------------------------
\* client/main.py
\* ------------------------------------------------------------------------
Hosts == {"example.com", "bin.abitblue.com"}
Ports == {"22"}
Users == {"user", "ryang"}

\* what an identity file can hold
KeyFiles == {"plain", "encrypted", "invalid"}

\* how self.ssh.connect ends: authenticated; returned with the transport not
\* authenticated (partial authentication); BadAuthenticationType (the remote
\* does not allow the method); AuthenticationException (credential refused)
Replies == {"auth", "noauth", "unsupported", "rejected"}

NoError == [type |-> "", msg |-> <<>>]

\* the mutant: no handler around self.ssh.connect
CaughtNothing(reply) == FALSE

\* except paramiko.ssh_exception.BadAuthenticationType: pass
Caught(reply) == reply = "unsupported"

\* the exception self.ssh.connect raises on reply, NoError when it returns
ConnectError(reply) ==
    IF reply = "unsupported"
    THEN [type |-> "BadAuthenticationType", msg |-> <<"Bad authentication type">>]
    ELSE IF reply = "rejected"
    THEN [type |-> "AuthenticationException", msg |-> <<"Authentication failed.">>]
    ELSE NoError

\* the authenticated flag of the transport once connect returned on reply
TransportAuthenticated(reply) == reply = "auth"

\* the mutant: connected set as soon as connect returns
ConnectedOnReturn(flag) == TRUE

\* connected = self.ssh.get_transport().authenticated
ConnectedAfter(flag) == flag

\* the mutant: the key is tried whether or not the password connected
KeyBranchAlways(kf, conn) == kf # "none"

\* the mutant: the key branch does not ask whether a key file was given
KeyBranchUnlessConnected(kf, conn) == ~conn

\* if keyfile and not connected:
KeyBranch(kf, conn) == kf # "none" /\ ~conn

\* f'Could not connect to {username}@{hostname}:{port} using provided auth method(s)'
CouldNotConnect(u, h, pt) ==
    [type |-> "SSHException",
     msg |-> <<"Could not connect to ", u, "@", h, ":", pt,
               " using provided auth method(s)">>]

ClientIdle ==
    /\ hostname = "example.com"
    /\ port = "22"
    /\ username = "user"
    /\ password = FALSE
    /\ keyfile = "none"
    /\ pwReply = "none"
    /\ keyReply = "none"
    /\ cpc = "idle"
    /\ connected = FALSE
    /\ authenticated = FALSE
    /\ tried = <<>>
    /\ opened = FALSE
    /\ key = "none"
    /\ answers = <<>>
    /\ sftpOpen = FALSE
    /\ cerr = NoError
    /\ uploaded = NoName

\* SFTP(args.hostname, args.port, args.username, password=..., keyfile=...)
\* is about to run; lines 36-39 are done
ClientInit ==
    /\ hostname \in Hosts
    /\ port \in Ports
    /\ username \in Users
    /\ password \in BOOLEAN
    /\ keyfile \in {"none"} \cup KeyFiles
    /\ pwReply \in (IF password THEN Replies ELSE {"none"})
    /\ keyReply \in (IF keyfile \in {"plain", "encrypted"} THEN Replies ELSE {"none"})
    /\ cpc = "password"
    /\ connected = FALSE
    /\ authenticated = FALSE
    /\ tried = <<>>
    /\ opened = FALSE
    /\ key = "none"
    /\ answers = <<>>
    /\ sftpOpen = FALSE
    /\ cerr = NoError
    /\ uploaded = NoName

\* lines 41-46, taken: self.ssh.connect(..., password=password)
TryPassword ==
    /\ cpc = "password"
    /\ password /\ ~connected
    /\ tried' = Append(tried, "password")
    /\ IF ConnectError(pwReply) = NoError
       THEN /\ authenticated' = TransportAuthenticated(pwReply)
            /\ connected' = ConnectedAfter(authenticated')
            /\ cpc' = "keyfile"
            /\ cerr' = cerr
       ELSE /\ authenticated' = FALSE
            /\ connected' = connected
            /\ IF Caught(pwReply)
               THEN cpc' = "keyfile" /\ cerr' = cerr
               ELSE cpc' = "raised" /\ cerr' = ConnectError(pwReply)
    /\ UNCHANGED <<hostname, port, username, password, keyfile, pwReply,
                   keyReply, opened, key, answers, sftpOpen, uploaded, serverVars>>

\* line 41, not taken
SkipPassword ==
    /\ cpc = "password"
    /\ ~(password /\ ~connected)
    /\ cpc' = "keyfile"
    /\ UNCHANGED <<hostname, port, username, password, keyfile, pwReply,
                   keyReply, connected, authenticated, tried, opened, key,
                   answers, sftpOpen, cerr, uploaded, serverVars>>

\* line 48, taken: open_key starts with opened = False, key = None
EnterKeyBranch ==
    /\ cpc = "keyfile"
    /\ KeyBranch(keyfile, connected)
    /\ opened' = FALSE
    /\ key' = "none"
    /\ cpc' = "open_key"
    /\ UNCHANGED <<hostname, port, username, password, keyfile, pwReply,
                   keyReply, connected, authenticated, tried, answers,
                   sftpOpen, cerr, uploaded, serverVars>>

\* line 48, not taken
SkipKey ==
    /\ cpc = "keyfile"
    /\ ~KeyBranch(keyfile, connected)
    /\ cpc' = "final"
    /\ UNCHANGED <<hostname, port, username, password, keyfile, pwReply,
                   keyReply, connected, authenticated, tried, opened, key,
                   answers, sftpOpen, cerr, uploaded, serverVars>>

\* lines 73-78: while not opened: RSAKey.from_private_key(keyfile) without a
\* password. An encrypted key raises PasswordRequiredException (to the prompt),
\* a file that is no RSA key raises an SSHException nothing catches
LoadKey ==
    /\ cpc = "open_key"
    /\ ~opened
    /\ IF keyfile = "plain"
       THEN key' = "usable" /\ opened' = TRUE /\ cpc' = "key_connect" /\ cerr' = cerr
       ELSE IF keyfile = "encrypted"
       THEN key' = key /\ opened' = opened /\ cpc' = "prompt" /\ cerr' = cerr
       ELSE /\ key' = key /\ opened' = opened /\ cpc' = "raised"
            /\ cerr' = [type |-> "SSHException", msg |-> <<"not a valid RSA private key file">>]
    /\ UNCHANGED <<hostname, port, username, password, keyfile, pwReply,
                   keyReply, connected, authenticated, tried, answers,
                   sftpOpen, uploaded, serverVars>>

\* the mutant: a rejected passphrase ends the loop
PassphraseWrongGivesUp(ans) == "key_connect"

\* lines 84-85 and 73: where a typed passphrase leads. The SSHException of a
\* wrong one is swallowed and opened stays False, so the loop starts over
AfterPassphrase(ans) == IF ans = "correct" THEN "key_connect" ELSE "open_key"

\* lines 79-85: getpass, then from_private_key(keyfile, password=password)
Prompt ==
    /\ cpc = "prompt"
    /\ \E ans \in {"correct", "wrong"} :
          /\ ans = "wrong" =>
                Cardinality({i \in 1..Len(answers) : answers[i] = "wrong"}) < MaxWrong
          /\ answers' = Append(answers, ans)
          /\ key' = IF ans = "correct" THEN "usable" ELSE key
          /\ opened' = (ans = "correct")
          /\ cpc' = AfterPassphrase(ans)
    /\ UNCHANGED <<hostname, port, username, password, keyfile, pwReply,
                   keyReply, connected, authenticated, tried, sftpOpen, cerr,
                   uploaded, serverVars>>

\* lines 51-54: self.ssh.connect(..., pkey=key)
TryKey ==
    /\ cpc = "key_connect"
    /\ tried' = Append(tried, "publickey")
    /\ IF ConnectError(keyReply) = NoError
       THEN /\ authenticated' = TransportAuthenticated(keyReply)
            /\ connected' = ConnectedAfter(authenticated')
            /\ cpc' = "final"
            /\ cerr' = cerr
       ELSE /\ authenticated' = FALSE
            /\ connected' = connected
            /\ IF Caught(keyReply)
               THEN cpc' = "final" /\ cerr' = cerr
               ELSE cpc' = "raised" /\ cerr' = ConnectError(keyReply)
    /\ UNCHANGED <<hostname, port, username, password, keyfile, pwReply,
                   keyReply, opened, key, answers, sftpOpen, uploaded, serverVars>>

\* the mutant: the final check is missing and the sub-channel opened anyway
ExhaustedSkipped ==
    /\ cpc = "final"
    /\ ~connected
    /\ sftpOpen' = TRUE
    /\ cpc' = "authenticated"
    /\ UNCHANGED <<hostname, port, username, password, keyfile, pwReply,
                   keyReply, connected, authenticated, tried, opened, key,
                   answers, cerr, uploaded, serverVars>>

\* lines 56-58: raise SSHException(Could not connect ...)
Exhausted ==
    /\ cpc = "final"
    /\ ~connected
    /\ cpc' = "raised"
    /\ cerr' = CouldNotConnect(username, hostname, port)
    /\ UNCHANGED <<hostname, port, username, password, keyfile, pwReply,
                   keyReply, connected, authenticated, tried, opened, key,
                   answers, sftpOpen, uploaded, serverVars>>

\* line 60: self.sftp = self.ssh.open_sftp()
OpenSftp ==
    /\ cpc = "final"
    /\ connected
    /\ sftpOpen' = TRUE
    /\ cpc' = "authenticated"
    /\ UNCHANGED <<hostname, port, username, password, keyfile, pwReply,
                   keyReply, connected, authenticated, tried, opened, key,
                   answers, cerr, uploaded, serverVars>>

\* the request_name.py process ssh.exec_command starts on the remote
Remote == CHOOSE p \in Procs : \A q \in Procs : p <= q

\* a request_name.py process started for somebody else
Rival == CHOOSE p \in Procs \ {Remote} : \A q \in Procs \ {Remote} : p <= q

\* lines 116-121: the with-body starts: sftp.chdir, then
\* ssh.exec_command('python3 .../request_name.py')
ExecCommand ==
    /\ cpc = "authenticated"
    /\ spc[Remote] = "idle"
    /\ spc' = [spc EXCEPT ![Remote] = "initdb"]
    /\ cpc' = "reading"
    /\ UNCHANGED <<tableExists, assets, writer, connOpen, txn, candidate, data,
                   stdout, serr, preAssets, clock, now>>
    /\ UNCHANGED <<hostname, port, username, password, keyfile, pwReply,
                   keyReply, connected, authenticated, tried, opened, key,
                   answers, sftpOpen, cerr, uploaded>>

\* lines 122-132: stdout.read() returns at the end of the remote process;
\* data[0] names the file, and is an IndexError when nothing was printed,
\* which leaves the with-scope (sftp and ssh closed)
ReadName ==
    /\ cpc = "reading"
    /\ spc[Remote] \in {"done", "failed"}
    /\ IF stdout[Remote] = <<>>
       THEN /\ cpc' = "crashed"
            /\ cerr' = [type |-> "IndexError", msg |-> <<"list index out of range">>]
            /\ sftpOpen' = FALSE
       ELSE /\ cpc' = "upload"
            /\ cerr' = cerr
            /\ sftpOpen' = sftpOpen
    /\ UNCHANGED <<hostname, port, username, password, keyfile, pwReply,
                   keyReply, connected, authenticated, tried, opened, key,
                   answers, uploaded, serverVars>>

\* lines 135-145 and __exit__: sftp.putfo(args.file, filename), the link is
\* printed, sftp and ssh are closed
PutFile ==
    /\ cpc = "upload"
    /\ uploaded' = stdout[Remote][1]
    /\ sftpOpen' = FALSE
    /\ cpc' = "closed"
    /\ UNCHANGED <<hostname, port, username, password, keyfile, pwReply,
                   keyReply, connected, authenticated, tried, opened, key,
                   answers, cerr, serverVars>>

\* ------------------------------------------------------------------------
\* Specifications
\* ------------------------------------------------------------------------
\* NumProcs processes race on one database file
Init ==
    /\ ServerInit(Procs, SUBSET Names)
    /\ clock = ClockSamples
    /\ ClientIdle

Next ==
    \E p \in Procs :
        \/ initdb(p)
        \/ Enter(p)
        \/ CheckName(p)
        \/ Insert(p)
        \/ InsertDuplicate(p)
        \/ InsertLocked(p)
        \/ PrintData(p)
        \/ Exit(p)

Spec == Init /\ [][Next]_vars

\* one process allocates at any instant of two years
InitExpire ==
    /\ ServerInit({1}, (SUBSET Names) \ {Names})
    /\ clock = ValidInstants
    /\ ClientIdle

NextExpire ==
    \E p \in Procs :
        \/ initdb(p)
        \/ Enter(p)
        \/ CheckName(p)
        \/ Insert(p)
        \/ PrintData(p)
        \/ Exit(p)

SpecExpire == InitExpire /\ [][NextExpire]_vars

\* one client negotiates with one remote
InitAuth ==
    /\ ServerInit({}, {{}})
    /\ clock = {}
    /\ ClientInit

NextAuth ==
    \/ TryPassword
    \/ SkipPassword
    \/ EnterKeyBranch
    \/ SkipKey
    \/ LoadKey
    \/ Prompt
    \/ TryKey
    \/ Exhausted
    \/ OpenSftp

SpecAuth == InitAuth /\ [][NextAuth]_vars

\* two processes race; each keeps running its check loop, and gen_random,
\* drawing every name with positive probability, does not avoid the names
\* the table lacks for ever
InitFair ==
    /\ ServerInit({Remote, Rival}, SUBSET Names)
    /\ clock = ClockSamples
    /\ ClientIdle

DrawsFree(p) ==
    CheckName(p) /\ (spc'[p] = "insert" \/ ~check_name(p, candidate'[p]))

SpecFair ==
    /\ InitFair
    /\ [][Next]_vars
    /\ \A p \in Procs : WF_vars(CheckName(p)) /\ SF_vars(DrawsFree(p))

\* one client negotiates, then has the remote mint a name and uploads, while
\* the request_name.py process of another client runs
InitUpload ==
    /\ ServerInit({Rival}, SUBSET Names)
    /\ clock = ClockSamples
    /\ ClientInit

NextUpload ==
    \/ NextAuth
    \/ ExecCommand
    \/ ReadName
    \/ PutFile
    \/ Next

SpecUpload == InitUpload /\ [][NextUpload]_vars

\* ------------------------------------------------------------------------
\* Properties of the allocator
\* ------------------------------------------------------------------------
Emitted(p) == stdout[p] # <<>>

\* every row of the database file: committed ones and those of open transactions
RECURSIVE OpenRows(_)
OpenRows(S) ==
    IF S = {} THEN <<>>
    ELSE LET p == CHOOSE x \in S : TRUE IN txn[p] \o OpenRows(S \ {p})

StoreRows == assets \o OpenRows(Procs)

RowsNamed(n) == {i \in 1..Len(StoreRows) : StoreRows[i].obfuscated_name = n}

Inserted(p) == data[p] # <<>>

\* C1: the names printed by the processes are pairwise distinct, whatever the
\* interleaving of their checks, inserts, prints and commits
EmittedNamesDistinct ==
    \A p, q \in Procs :
        (p # q /\ Emitted(p) /\ Emitted(q)) => stdout[p][1] # stdout[q][1]

\* C1 witness: p printed a name that q had drawn too and had checked as unused
\* before p committed it
EmittedAfterRace ==
    \E p, q \in Procs :
        /\ p # q /\ Emitted(p)
        /\ candidate[q] = stdout[p][1]
        /\ stdout[p][1] \notin preAssets[q]
        /\ spc[q] \in {"insert", "failed"}

\* C2: a violation of the uniqueness constraint is retried and never reaches
\* the caller: no process dies with the duplicate-name error
DuplicateNeverPropagates ==
    \A p \in Procs : serr[p] # "IntegrityError"

\* C4 as stated: the expire returned is midnight of the first day of the month
\* following the month of the allocation instant
FirstOfNextMonth(t) ==
    Timestamp(IF t.month = 12 THEN t.year + 1 ELSE t.year,
              IF t.month = 12 THEN 1 ELSE t.month + 1, 1, 0)

OneRowPerName ==
    /\ \A n \in Names : Cardinality(RowsNamed(n)) <= 1
    /\ \A p, q \in Procs :
          (p # q /\ candidate[p] = candidate[q] /\ Inserted(p)) => ~Inserted(q)

\* C5 witness: two processes insert the same candidate, one commits it, the
\* other is refused, and the store holds exactly one row of that name
OneInsertWon ==
    \E p, q \in Procs :
        /\ p # q /\ candidate[p] = candidate[q]
        /\ spc[p] = "done" /\ Inserted(p)
        /\ serr[q] = "IntegrityError"
        /\ candidate[p] \notin preAssets[q]
        /\ Cardinality(RowsNamed(candidate[p])) = 1

\* ------------------------------------------------------------------------
\* Properties of the negotiation
\* ------------------------------------------------------------------------
Ended == cpc \in {"authenticated", "raised"}

IsExhausted == cpc = "raised" /\ cerr = CouldNotConnect(username, hostname, port)

KeyAttempted == \E i \in 1..Len(tried) : tried[i] = "publickey"

\* C3: with a password the remote refuses and a valid unencrypted key, the
\* negotiation does not fail at the password but authenticates with the key
WrongPasswordFallsThrough ==
    (password /\ pwReply = "rejected" /\ keyfile = "plain" /\ keyReply = "auth"
        /\ Ended)
    => (cpc = "authenticated" /\ tried = <<"password", "publickey">>)

\* C6: with an encrypted key every prompt but the last got a wrong passphrase
\* and the last a correct one, so k wrong ones cost k+1 prompts; a wrong
\* passphrase leaves the loop running without error, a correct one leaves it
\* with a usable key, and the remote accepting the key then authenticates
PassphraseLoop ==
    LET n == Len(answers) IN
    /\ (n > 0 /\ answers[n] = "wrong") =>
          (cpc \in {"open_key", "prompt"} /\ cerr = NoError /\ ~opened)
    /\ (n > 0 /\ answers[n] = "correct") =>
          (key = "usable" /\ opened /\ cpc \notin {"open_key", "prompt"})
    /\ (keyfile = "encrypted" /\ (cpc = "key_connect" \/ KeyAttempted)) =>
          (n > 0 /\ answers[n] = "correct" /\ \A i \in 1..(n - 1) : answers[i] = "wrong")
    /\ (n > 0 /\ keyReply = "auth" /\ Ended) => cpc = "authenticated"

\* C6 witness: wrong, wrong, correct: three prompts, then authenticated
ThreePrompts ==
    /\ answers = <<"wrong", "wrong", "correct">>
    /\ cpc = "authenticated"

\* C7: a password is attempted before anything is done with the key, and once
\* the password attempt authenticated nothing else is: no key is loaded, no
\* passphrase asked for, no second connect, and the outcome is Authenticated
PasswordFirst ==
    /\ (password /\ cpc # "password") => (tried # <<>> /\ tried[1] = "password")
    /\ (password /\ (key # "none" \/ answers # <<>> \/ cpc \in {"open_key", "prompt", "key_connect"}))
          => (tried # <<>> /\ tried[1] = "password")
    /\ (tried # <<>> /\ tried[1] = "password" /\ authenticated /\ Len(tried) = 1) =>
          /\ cpc \in {"keyfile", "final", "authenticated"}
          /\ key = "none" /\ answers = <<>> /\ ~opened
    /\ (password /\ pwReply = "auth" /\ cpc # "password") => tried = <<"password">>
    /\ (password /\ pwReply = "auth" /\ Ended) => cpc = "authenticated"

\* C7 witness: authenticated by the password although a key file was given
PasswordWonOverKey ==
    /\ cpc = "authenticated"
    /\ tried = <<"password">>
    /\ keyfile = "encrypted"

\* C8: BadAuthenticationType never reaches the caller; after it on the
\* password the key is still tried when there is one, and after it on the key
\* the final check is reached, which reports the exhaustion
UnsupportedNonFatal ==
    /\ cerr.type # "BadAuthenticationType"
    /\ (pwReply = "unsupported" /\ cpc # "password") =>
          /\ tried[1] = "password"
          /\ cpc = "raised" => (Len(tried) = 2 \/ keyfile \in {"none", "invalid"})
          /\ (keyfile \in {"plain", "encrypted"} /\ Ended) => tried = <<"password", "publickey">>
          /\ (keyfile = "none" /\ Ended) => IsExhausted
    /\ (keyReply = "unsupported" /\ tried # <<>> /\ tried[Len(tried)] = "publickey") =>
          /\ cpc \in {"final", "raised"}
          /\ cpc = "raised" => IsExhausted

\* C8 witness: both methods unsupported, both attempted, ended as exhausted
BothUnsupported ==
    /\ pwReply = "unsupported" /\ keyReply = "unsupported"
    /\ tried = <<"password", "publickey">>
    /\ IsExhausted

LastReply == IF tried[Len(tried)] = "password" THEN pwReply ELSE keyReply

\* C9: Authenticated means the authenticated flag of the transport was read
\* as true; a connect that returned with the flag false never authenticates,
\* the negotiation goes on to the key or ends as exhausted
OnlyTheFlagAuthenticates ==
    /\ (cpc = "authenticated" \/ connected \/ sftpOpen) => authenticated
    /\ (tried # <<>> /\ LastReply = "noauth") =>
          /\ ~connected /\ cpc # "authenticated"
          /\ cpc = "raised" => (IsExhausted \/ keyfile = "invalid")
    /\ (pwReply = "noauth" /\ keyfile \in {"plain", "encrypted"} /\ Ended) =>
          tried = <<"password", "publickey">>

\* C9 witness: the password connect returned unauthenticated, the key connect
\* too, and the negotiation ended as exhausted
ReturnedUnauthenticated ==
    /\ pwReply = "noauth" /\ keyReply = "noauth"
    /\ tried = <<"password", "publickey">>
    /\ IsExhausted

\* C10: when every method that applies was attempted and the session is not
\* authenticated, the negotiation ends as exhausted, naming user, host and
\* port; no method is attempted twice
AllTriedThenExhausted ==
    LET methods == {tried[i] : i \in 1..Len(tried)} IN
    /\ Cardinality(methods) = Len(tried)
    /\ (/\ Ended /\ ~authenticated
        /\ password => "password" \in methods
        /\ keyfile # "none" => "publickey" \in methods)
       => IsExhausted

\* ------------------------------------------------------------------------
\* Further properties of the allocator
\* ------------------------------------------------------------------------
\* C11: once a process has printed its name, the row is in the store for
\* everybody: the existence check of every other open connection finds it
EmittedNameSeenByAll ==
    \A p, q \in Procs :
        (p # q /\ Emitted(p) /\ connOpen[q]) => check_name(q, stdout[p][1])

\* the allocation instant of p in seconds since the epoch
AllocatedAt(p) == Timestamp(now[p].year, now[p].month, now[p].day, now[p].sec)

\* C12: the expire returned lies after the allocation instant, at least one
\* day and at most 31 days ahead of it
ExpireWithinAMonth ==
    \A p \in Procs : Inserted(p) =>
        /\ data[p][2] > AllocatedAt(p)
        /\ data[p][2] - AllocatedAt(p) >= 86400
        /\ data[p][2] - AllocatedAt(p) <= 31 * 86400

\* C12 witness: an allocation at midnight of the first day of a 31-day month,
\* exactly 31 days ahead of its expire
ExpireFullMonthAhead ==
    \E p \in Procs :
        /\ Inserted(p)
        /\ now[p].day = 1 /\ now[p].sec = 0
        /\ data[p][2] - AllocatedAt(p) = 31 * 86400

\* C13: whatever the table held when the call started, the candidate that
\* leaves the check loop, and so the name returned, was not in it
ReturnedNameWasAbsent ==
    \A p \in Procs :
        /\ spc[p] \in {"insert", "print", "exit", "done", "failed"} =>
              candidate[p] \notin preAssets[p]
        /\ Inserted(p) => data[p][1] \notin preAssets[p]

\* C13 witness: a process that started on a non-empty table printed a name
\* that the table did not hold then
ReturnedBesidePriorRows ==
    \E p \in Procs :
        /\ Emitted(p)
        /\ preAssets[p] # {}
        /\ stdout[p][1] \notin preAssets[p]

\* C15: a process that left the with-scope, by returning or by an exception
\* of the INSERT, holds no open connection, no uncommitted row and no lock,
\* and the row of a process that returned was committed before the close
ConnectionReleased ==
    \A p \in Procs :
        /\ spc[p] \in {"idle", "initdb", "enter", "done", "failed"} => ~connOpen[p]
        /\ spc[p] \in {"done", "failed"} => (txn[p] = <<>> /\ p \notin writer)
        /\ (spc[p] = "done" /\ Inserted(p)) =>
              \E i \in 1..Len(assets) : assets[i] = Row(data[p][1], data[p][2])

\* C15 witness: one process returned and committed, another died on the
\* INSERT, both connections are closed
ReleasedOnBothPaths ==
    \E p, q \in Procs :
        /\ spc[p] = "done" /\ Inserted(p) /\ ~connOpen[p]
        /\ spc[q] = "failed" /\ serr[q] = "IntegrityError" /\ ~connOpen[q]

\* C16: a step either leaves the rows of the store as they are or is the
\* INSERT of a process that returns, which appends the one row (name, expire)
\* it returns; committed rows stay committed; a failing INSERT adds nothing
RowsOnlyAppended ==
    [][/\ \/ StoreRows' = StoreRows
          \/ \E p \in Procs :
                /\ spc[p] = "insert" /\ spc'[p] = "print"
                /\ StoreRows' = Append(StoreRows, Row(data'[p][1], data'[p][2]))
       /\ \A p \in Procs :
             (spc[p] = "insert" /\ spc'[p] = "print") => Len(StoreRows') = Len(StoreRows) + 1
       /\ \A p \in Procs :
             (spc[p] = "insert" /\ spc'[p] = "failed") => StoreRows' = StoreRows
       /\ Len(assets') >= Len(assets)
       /\ \A i \in 1..Len(assets) : assets'[i] = assets[i]
      ]_vars

\* C16 witness: a process that started on a non-empty table returned and
\* committed: the table holds the prior rows and, after them, its row
AppendedAfterPriorRows ==
    \E p \in Procs :
        /\ spc[p] = "done" /\ Inserted(p)
        /\ preAssets[p] # {}
        /\ \A n \in preAssets[p] : \E i \in 1..Len(assets) : assets[i].obfuscated_name = n
        /\ \E i \in 2..Len(assets) : assets[i] = Row(data[p][1], data[p][2])

\* C17: the existence check of the connection that allocated a name finds
\* that name as soon as the allocation returned, and once the scope was left
\* the check of every connection does
AllocatedNameExists ==
    \A p \in Procs :
        /\ (Inserted(p) /\ connOpen[p]) => check_name(p, data[p][1])
        /\ (Inserted(p) /\ spc[p] = "done") =>
              \A q \in Procs : check_name(q, data[p][1])

\* C17 witness: a process just returned from the allocation, its row is not
\* committed yet, and its own check finds the name
ExistsRightAfterReturn ==
    \E p \in Procs :
        /\ spc[p] = "print" /\ connOpen[p]
        /\ data[p][1] \notin RowNames(assets)
        /\ check_name(p, data[p][1])

\* C19: a process in the check loop leaves it as long as the table lacks a
\* name of the space, however many draws that takes; while the table holds
\* every name, a step of the process keeps it in the loop, returning and
\* inserting nothing
StoreFull == RowNames(assets) = Names

LoopEndsUnlessFull ==
    /\ \A p \in Procs :
          (spc[p] = "check" /\ ~StoreFull) ~> (spc[p] # "check" \/ StoreFull)
    /\ [][\A p \in Procs :
             (spc[p] = "check" /\ StoreFull) =>
                (spc'[p] = "check" /\ data'[p] = <<>> /\ txn'[p] = <<>>)]_vars

\* C19 witness: one process left the loop and printed the last free name,
\* the other is in the loop on the table that is full now
LoopingOnFullStore ==
    \E p, q \in Procs :
        /\ spc[p] = "check" /\ StoreFull
        /\ preAssets[p] # Names
        /\ Emitted(q) /\ spc[q] = "done"

\* ------------------------------------------------------------------------
\* Further properties of the negotiation
\* ------------------------------------------------------------------------
\* C14: without a password and without a key file nothing is handed to the
\* transport, no key is loaded and no passphrase asked for, and the
\* negotiation ends as exhausted with no method tried
NoCandidatesExhausted ==
    (~password /\ keyfile = "none") =>
        /\ tried = <<>> /\ answers = <<>> /\ key = "none" /\ ~opened
        /\ ~authenticated /\ ~sftpOpen
        /\ cpc \in {"password", "keyfile", "final", "raised"}
        /\ cpc = "raised" => IsExhausted

\* C14 witness: no candidates, ended as exhausted, nothing tried
ExhaustedUntried ==
    /\ ~password /\ keyfile = "none"
    /\ IsExhausted
    /\ tried = <<>>

\* C18: the sub-channel is open, the remote process started, a row added or
\* the file uploaded only in a session whose authenticated flag was read as
\* true; when __init__ raised, none of it happened; the file goes up under
\* the name the remote process printed
OnlyAuthenticatedMints ==
    LET minting == \/ spc[Remote] # "idle" \/ data[Remote] # <<>>
                   \/ txn[Remote] # <<>> \/ stdout[Remote] # <<>>
                   \/ \E i \in 1..Len(StoreRows) :
                         /\ StoreRows[i].expire_time # PriorExpire
                         /\ data[Rival] = <<>> \/ StoreRows[i].obfuscated_name # data[Rival][1]
    IN
    /\ (sftpOpen \/ minting \/ uploaded # NoName
           \/ cpc \in {"reading", "upload", "closed", "crashed"})
          => (authenticated /\ connected /\ cerr.type \notin {"SSHException", "AuthenticationException"})
    /\ cpc = "raised" => (~sftpOpen /\ ~minting /\ uploaded = NoName)
    /\ uploaded # NoName => (Emitted(Remote) /\ uploaded = stdout[Remote][1])

\* C18 witness: authenticated, a name minted and committed, the file uploaded
\* under it
UploadedUnderMintedName ==
    /\ cpc = "closed"
    /\ authenticated
    /\ uploaded \in RowNames(assets)
    /\ uploaded = data[Remote][1]

====
